---- MODULE Spec2Model ----
(***************************************************************************)
(* Model of nnaps/mesa/evolution_phases.py: the parameter decomposer, the  *)
(* aggregate functions, the evolution-phase detectors and the batch        *)
(* evaluator get_all_phases.                                               *)
(*                                                                         *)
(* Conventions.                                                            *)
(*  - A Python string is a sequence of atoms: the atom "_" is one          *)
(*    underscore character, the atom "__" is two of them, and every other  *)
(*    atom is a run of characters holding no underscore (Chars expands     *)
(*    the atoms into the character-level sequence str.split works on).     *)
(*  - Python's None is the empty tuple <<>>, a value x that may be None is *)
(*    <<x>> (Some(x)).                                                     *)
(*  - Rows are numbered 1..n here, 0..n-1 in the source.                   *)
(*  - A call ends in a record: kind "None" (return None), "sel" (a         *)
(*    np.where selection, the row numbers in increasing order), "ages"     *)
(*    (the return_age=True tuple) or "raise" (an exception left the call). *)
(***************************************************************************)
EXTENDS Integers, Sequences, FiniteSets, TLC

VARIABLES par, data, phases, pending, phase_selection, call, result, pc

vars == <<par, data, phases, pending, phase_selection, call, result, pc>>

(***************************************************************************)
(* Generic helpers                                                         *)
(***************************************************************************)
None == <<>>
Some(x) == <<x>>

Min(S) == CHOOSE x \in S : \A y \in S : x <= y
Max(S) == CHOOSE x \in S : \A y \in S : x >= y

RECURSIVE SortedSeq(_)
\* the elements of a finite set of integers, in increasing order
SortedSeq(S) == IF S = {} THEN <<>> ELSE <<Min(S)>> \o SortedSeq(S \ {Min(S)})

SeqsUpTo(S, n) == UNION {[1..k -> S] : k \in 0..n}

(***************************************************************************)
(* Strings and str.split                                                   *)
(***************************************************************************)
RECURSIVE Chars(_)
\* the character-level view of a string: "__" is two underscore characters
Chars(s) ==
    IF s = <<>> THEN <<>>
    ELSE IF Head(s) = "__" THEN <<"_", "_">> \o Chars(Tail(s))
    ELSE <<Head(s)>> \o Chars(Tail(s))

RECURSIVE SplitFrom(_, _, _, _)
\* str.split(sep) scanning the characters cs left to right; cur is the part
\* being read, parts the parts already closed; sep is "_" or "__"
SplitFrom(cs, sep, cur, parts) ==
    IF cs = <<>> THEN Append(parts, cur)
    ELSE IF sep = "__" /\ Len(cs) >= 2 /\ cs[1] = "_" /\ cs[2] = "_"
         THEN SplitFrom(Tail(Tail(cs)), sep, <<>>, Append(parts, cur))
    ELSE IF sep = "_" /\ cs[1] = "_"
         THEN SplitFrom(Tail(cs), sep, <<>>, Append(parts, cur))
    ELSE SplitFrom(Tail(cs), sep, Append(cur, cs[1]), parts)

\* par.split(sep): a non-empty sequence of parts, each a character sequence
Split(s, sep) == SplitFrom(Chars(s), sep, <<>>, <<>>)

RECURSIVE Join(_)
\* '_'.join(parts)
Join(parts) ==
    IF parts = <<>> THEN <<>>
    ELSE IF Len(parts) = 1 THEN parts[1]
    ELSE parts[1] \o <<"_">> \o Join(Tail(parts))

(***************************************************************************)
(* Aggregate function registry                                             *)
(***************************************************************************)
AGREGATE_FUNCTIONS == {"max", "min", "avg", "diff", "rate"}

\* the keys of known_functions; the function objects min_, max_, ... are
\* named by their key
known_functions == {"min", "max", "avg", "diff", "rate"}

\* the key a part spells, if it spells one
IsKnown(part) == Len(part) = 1 /\ part[1] \in known_functions

(***************************************************************************)
(* Results of a call                                                       *)
(***************************************************************************)
NoDec == [pname |-> None, phase |-> None, func |-> None]

Blank == [kind |-> "None", sel |-> <<>>, a1 |-> 0, a2 |-> 0, exc |-> "",
          phase |-> "", missing |-> <<>>, dec |-> NoDec]

RNone == Blank
RSel(s) == [Blank EXCEPT !.kind = "sel", !.sel = s]
RAges(x, y) == [Blank EXCEPT !.kind = "ages", !.a1 = x, !.a2 = y]
RRaise(e) == [Blank EXCEPT !.kind = "raise", !.exc = e]
\* the ValueError of _check_history_parameters
RMissing(ph, miss) ==
    [Blank EXCEPT !.kind = "raise", !.exc = "MissingParameters",
                  !.phase = ph, !.missing = miss]
RDec(n, p, f) ==
    [Blank EXCEPT !.kind = "dec", !.dec = [pname |-> n, phase |-> p, func |-> f]]

(***************************************************************************)
(* decompose_parameter                                                     *)
(***************************************************************************)
\* decompose_parameter with the two-part test reading the first part
decompose_parameter_FirstPart(p) ==
    LET parts == Split(p, "__") IN
    IF Len(parts) = 1 THEN RDec(Some(parts[1]), None, Some("avg"))
    ELSE IF Len(parts) = 2 THEN
        IF IsKnown(parts[1])
        THEN RDec(Some(parts[2]), None, Some(parts[1][1]))
        ELSE RDec(Some(parts[1]), Some(parts[2]), Some("avg"))
    ELSE IF Len(parts) = 3 THEN
        IF IsKnown(parts[3])
        THEN RDec(Some(parts[1]), Some(parts[2]), Some(parts[3][1]))
        ELSE RRaise("KeyError")
    ELSE RDec(None, None, None)

decompose_parameter(p) ==
    LET parts == Split(p, "__") IN
    IF Len(parts) = 1 THEN RDec(Some(parts[1]), None, Some("avg"))
    ELSE IF Len(parts) = 2 THEN
        IF IsKnown(parts[2])
        THEN RDec(Some(parts[1]), None, Some(parts[2][1]))
        ELSE RDec(Some(parts[1]), Some(parts[2]), Some("avg"))
    ELSE IF Len(parts) = 3 THEN
        IF IsKnown(parts[3])
        THEN RDec(Some(parts[1]), Some(parts[2]), Some(parts[3][1]))
        ELSE RRaise("KeyError")
    ELSE RDec(None, None, None)

(***************************************************************************)
(* The history: a numpy record array.  data.n is its number of rows,       *)
(* data.col maps each column it has (data.dtype.names) to the sequence of  *)
(* its values.  Values are integers in a unit fixed per column:            *)
(*   age, log_L, log_LH, effective_T, log_LHe, lg_mstar_dot_1, CE_phase,   *)
(*   log_center_T, log_center_Rho : the value itself                       *)
(*   center_h1   : its decimal exponent (the value is 10^x)                *)
(*   center_he4  : hundredths                                              *)
(*   c_core_mass : ten-thousandths                                         *)
(*   log_Teff    : thousandths                                             *)
(*   log_g       : tenths                                                  *)
(*   log_dt      : the value itself (the weight of a row is 10^log_dt)     *)
(***************************************************************************)
Columns == {"age", "log_L", "log_LH", "center_h1", "center_he4", "effective_T",
            "log_LHe", "c_core_mass", "log_center_T", "log_center_Rho",
            "log_Teff", "log_g", "lg_mstar_dot_1", "CE_phase", "log_dt"}

\* data.dtype.names
Names(d) == DOMAIN d.col
\* data[c][i]
V(d, c, i) == d.col[c][i]
Rows(d) == 1..d.n

\* thresholds of the detectors, in the unit of their column
H1_EXHAUSTED == -12
H1_RGB_GUARD == 12
HE4_MARGIN == 1
LHE_ON == 1
CORE_CO == 100
ML_RATE == -10
LOG_TEFF_15000 == 4176
LOG_TEFF_20000 == 4301
LOG_TEFF_40000 == 4602
LOG_TEFF_WD == 4000
LOG_G_WD == 70
LOG_G_WD_ANY == 75
LHE_WD == 1

(***************************************************************************)
(* Aggregate functions over the rows I of the history d (data[mask] is the *)
(* pair d, I).  A value is the rational n/d, a non-finite float, or an     *)
(* exception.                                                              *)
(***************************************************************************)
Num(x, y) == [kind |-> "num", n |-> x, d |-> y, exc |-> ""]
NonFinite == [kind |-> "nonfinite", n |-> 0, d |-> 1, exc |-> ""]
VRaise(e) == [kind |-> "raise", n |-> 0, d |-> 1, exc |-> e]

RECURSIVE Pow10(_)
Pow10(k) == IF k <= 0 THEN 1 ELSE 10 * Pow10(k - 1)

RECURSIVE SumOver(_, _, _)
\* the sum of f[i] * g[i] over the rows I
SumOver(I, f, g) ==
    IF I = {} THEN 0
    ELSE LET i == Min(I) IN f[i] * g[i] + SumOver(I \ {i}, f, g)

min_(d, I, pname) ==
    IF pname \notin Names(d) THEN VRaise("FieldError")
    ELSE IF I = {} THEN VRaise("ValueError")
    ELSE Num(Min({V(d, pname, i) : i \in I}), 1)

max_(d, I, pname) ==
    IF pname \notin Names(d) THEN VRaise("FieldError")
    ELSE IF I = {} THEN VRaise("ValueError")
    ELSE Num(Max({V(d, pname, i) : i \in I}), 1)

avg_(d, I, pname) ==
    IF pname \notin Names(d) \/ "log_dt" \notin Names(d) THEN VRaise("FieldError")
    ELSE IF I = {} THEN VRaise("ZeroDivisionError")
    ELSE LET w == [i \in Rows(d) |-> Pow10(V(d, "log_dt", i))]
             one == [i \in Rows(d) |-> 1]
         IN  Num(SumOver(I, w, d.col[pname]), SumOver(I, w, one))

diff_(d, I, pname) ==
    IF pname \notin Names(d) THEN VRaise("FieldError")
    ELSE IF I = {} THEN VRaise("IndexError")
    ELSE Num(V(d, pname, Max(I)) - V(d, pname, Min(I)), 1)

\* rate_ with Python's float division, which raises on a zero age span
rate_ZeroDivision(d, I, pname) ==
    IF pname \notin Names(d) THEN VRaise("FieldError")
    ELSE IF I = {} THEN VRaise("IndexError")
    ELSE IF "age" \notin Names(d) THEN VRaise("FieldError")
    ELSE LET dv == V(d, pname, Max(I)) - V(d, pname, Min(I))
             da == V(d, "age", Max(I)) - V(d, "age", Min(I))
         IN  IF da = 0 THEN VRaise("ZeroDivisionError")
             ELSE IF da > 0 THEN Num(dv, da) ELSE Num(-dv, -da)

rate_(d, I, pname) ==
    IF pname \notin Names(d) THEN VRaise("FieldError")
    ELSE IF I = {} THEN VRaise("IndexError")
    ELSE IF "age" \notin Names(d) THEN VRaise("FieldError")
    ELSE LET dv == V(d, pname, Max(I)) - V(d, pname, Min(I))
             da == V(d, "age", Max(I)) - V(d, "age", Min(I))
         IN  IF da = 0 THEN NonFinite
             ELSE IF da > 0 THEN Num(dv, da) ELSE Num(-dv, -da)

\* known_functions[func](data, pname)
Apply(func, d, I, pname) ==
    CASE func = "min" -> min_(d, I, pname)
      [] func = "max" -> max_(d, I, pname)
      [] func = "avg" -> avg_(d, I, pname)
      [] func = "diff" -> diff_(d, I, pname)
      [] func = "rate" -> rate_(d, I, pname)

\* x == value, x a finite float
EqualsValue(x, v) == v.kind = "num" /\ x * v.d = v.n
\* value >= t and value < t for a number value
ValueGE(v, t) == v.n >= t * v.d
ValueLT(v, t) == v.n < t * v.d

(***************************************************************************)
(* Evolution phases                                                        *)
(***************************************************************************)
\* None when every parameter is a column of the history, the ValueError
\* otherwise
check_history_parameters(history, parameters, evol_phase) ==
    LET missing_parameters == SelectSeq(parameters, LAMBDA p : p \notin Names(history))
    IN  IF Len(missing_parameters) > 0
        THEN Some(RMissing(evol_phase, missing_parameters))
        ELSE None

\* np.where(age >= a1 and age <= a2)
WhereBetween(d, a1, a2) ==
    SortedSeq({i \in Rows(d) : V(d, "age", i) >= a1 /\ V(d, "age", i) <= a2})

init(d) == RSel(<<1>>)

final(d) == RSel(<<d.n>>)

\* log_LH / log_L > 0.999 in IEEE arithmetic: x/0 is +inf, -inf or nan
RatioAbove(lh, l) ==
    IF l > 0 THEN 1000 * lh > 999 * l
    ELSE IF l < 0 THEN 1000 * lh < 999 * l
    ELSE lh > 0

MS(d, return_age) ==
    LET chk == check_history_parameters(d, <<"log_L", "log_LH", "center_h1", "age">>, "MS")
        on == {i \in Rows(d) : RatioAbove(V(d, "log_LH", i), V(d, "log_L", i))}
        off == {i \in Rows(d) : V(d, "center_h1", i) < H1_EXHAUSTED}
        a1 == V(d, "age", Min(on))
        a2 == IF off = {} THEN V(d, "age", d.n) ELSE V(d, "age", Min(off))
    IN  IF chk # None THEN chk[1]
        ELSE IF on = {} THEN RNone
        ELSE IF return_age THEN RAges(a1, a2)
        ELSE RSel(WhereBetween(d, a1, a2))

RGB(d, return_age) ==
    LET chk == check_history_parameters(
                   d, <<"log_L", "center_h1", "center_he4", "effective_T", "age">>, "RGB")
        off == {i \in Rows(d) : V(d, "center_h1", i) < H1_EXHAUSTED}
        a1 == V(d, "age", Min(off))
        c_he_tams == V(d, "center_he4", Min(off))
        drgb == {i \in Rows(d) : V(d, "center_he4", i) >= c_he_tams - HE4_MARGIN}
        minT == Min({V(d, "effective_T", i) : i \in drgb})
        maxL == Max({V(d, "log_L", i) : i \in drgb})
        tip == {i \in drgb : V(d, "effective_T", i) = minT \/ V(d, "log_L", i) = maxL}
        a2 == V(d, "age", Min(tip))
    IN  IF chk # None THEN chk[1]
        ELSE IF ~(\E i \in Rows(d) : V(d, "center_h1", i) < H1_RGB_GUARD) THEN RNone
        ELSE IF off = {} THEN RRaise("IndexError")
        ELSE IF return_age THEN RAges(a1, a2)
        ELSE RSel(WhereBetween(d, a1, a2))

\* ML with the end of the window also taken at a rate equal to the threshold
ML_EndAtThreshold(d, return_age) ==
    LET chk == check_history_parameters(d, <<"lg_mstar_dot_1", "age">>, "ML")
        on == {i \in Rows(d) : V(d, "lg_mstar_dot_1", i) >= ML_RATE}
        a1 == V(d, "age", Min(on))
        off == {i \in Rows(d) : V(d, "age", i) > a1 /\ V(d, "lg_mstar_dot_1", i) <= ML_RATE}
        a2 == IF off = {} THEN V(d, "age", d.n) ELSE V(d, "age", Min(off))
    IN  IF chk # None THEN chk[1]
        ELSE IF \A i \in Rows(d) : V(d, "lg_mstar_dot_1", i) < ML_RATE THEN RNone
        ELSE IF return_age THEN RAges(a1, a2)
        ELSE RSel(WhereBetween(d, a1, a2))

ML(d, return_age) ==
    LET chk == check_history_parameters(d, <<"lg_mstar_dot_1", "age">>, "ML")
        on == {i \in Rows(d) : V(d, "lg_mstar_dot_1", i) >= ML_RATE}
        a1 == V(d, "age", Min(on))
        off == {i \in Rows(d) : V(d, "age", i) > a1 /\ V(d, "lg_mstar_dot_1", i) < ML_RATE}
        a2 == IF off = {} THEN V(d, "age", d.n) ELSE V(d, "age", Min(off))
    IN  IF chk # None THEN chk[1]
        ELSE IF \A i \in Rows(d) : V(d, "lg_mstar_dot_1", i) < ML_RATE THEN RNone
        ELSE IF return_age THEN RAges(a1, a2)
        ELSE RSel(WhereBetween(d, a1, a2))

MLstart(d, return_age) ==
    LET chk == check_history_parameters(d, <<"lg_mstar_dot_1", "age">>, "MLstart")
        ages == ML(d, TRUE)
        s == SortedSeq({i \in Rows(d) : V(d, "age", i) >= ages.a1})
    IN  IF chk # None THEN chk[1]
        ELSE IF ages.kind = "None" THEN RNone
        ELSE IF return_age THEN RAges(ages.a1, ages.a1)
        ELSE RSel(<<s[1]>>)

MLend(d, return_age) ==
    LET chk == check_history_parameters(d, <<"lg_mstar_dot_1", "age">>, "MLend")
        ages == ML(d, TRUE)
        s == SortedSeq({i \in Rows(d) : V(d, "age", i) <= ages.a2})
    IN  IF chk # None THEN chk[1]
        ELSE IF ages.kind = "None" THEN RNone
        ELSE IF return_age THEN RAges(ages.a2, ages.a2)
        ELSE RSel(<<s[Len(s)]>>)

CE(d) ==
    IF "CE_phase" \notin Names(d) THEN RRaise("FieldError")
    ELSE IF \A i \in Rows(d) : V(d, "CE_phase", i) = 0 THEN RNone
    ELSE RSel(SortedSeq({i \in Rows(d) : V(d, "CE_phase", i) = 1}))

CEstart(d) ==
    LET s == CE(d) IN
    IF s.kind # "sel" THEN s
    ELSE IF s.sel = <<>> THEN RRaise("IndexError")
    ELSE RSel(<<s.sel[1]>>)

\* CEend returning the first row of the CE selection
CEend_First(d) ==
    LET s == CE(d) IN
    IF s.kind # "sel" THEN s
    ELSE IF s.sel = <<>> THEN RRaise("IndexError")
    ELSE RSel(<<s.sel[1]>>)

CEend(d) ==
    LET s == CE(d) IN
    IF s.kind # "sel" THEN s
    ELSE IF s.sel = <<>> THEN RRaise("IndexError")
    ELSE RSel(<<s.sel[Len(s.sel)]>>)

\* the helium-ignition curve helium_burn.data, as a table of (rho, T)
\* points in increasing rho
HeIgnition_table == <<[rho |-> 0, T |-> 3], [rho |-> 2, T |-> 1]>>

\* log_center_T >= HeIgF(log_center_Rho): HeIgF interpolates the table
\* linearly and extrapolates it linearly outside
AboveHeIgF(T, rho) ==
    LET p == HeIgnition_table[1]
        q == HeIgnition_table[2]
    IN  (T - p.T) * (q.rho - p.rho) >= (q.T - p.T) * (rho - p.rho)

Ignited(d, i) == AboveHeIgF(V(d, "log_center_T", i), V(d, "log_center_Rho", i))

HeIgnition(d, return_age) ==
    LET chk == check_history_parameters(d, <<"log_LHe", "c_core_mass", "age">>, "HeIgnition")
        on == {i \in Rows(d) : V(d, "log_LHe", i) > LHE_ON}
        a1 == V(d, "age", Min(on))
        \* np.all(data['c_core_mass']) < 0.01 compares a bool with 0.01
        allNonZero == \A i \in Rows(d) : V(d, "c_core_mass", i) # 0
        core == {i \in Rows(d) : V(d, "c_core_mass", i) >= CORE_CO}
        a2 == IF ~allNonZero THEN V(d, "age", d.n) ELSE V(d, "age", Min(core))
        win == {i \in Rows(d) : V(d, "age", i) >= a1 /\ V(d, "age", i) <= a2}
        peak == Max({V(d, "log_LHe", i) : i \in win})
        s == SortedSeq({i \in win : V(d, "log_LHe", i) = peak})
    IN  IF chk # None THEN chk[1]
        ELSE IF \A i \in Rows(d) : V(d, "log_LHe", i) < LHE_ON THEN RNone
        ELSE IF on = {} THEN RRaise("IndexError")
        ELSE IF allNonZero /\ core = {} THEN RRaise("IndexError")
        ELSE IF win = {} THEN RRaise("ValueError")
        ELSE IF return_age THEN RAges(V(d, "age", s[1]), V(d, "age", s[1]))
        ELSE RSel(s)

\* HeCoreBurning with the return_age branch taken before the core-mass test
HeCoreBurning_AgesFirst(d, return_age) ==
    LET chk == check_history_parameters(
                   d, <<"log_center_T", "log_center_Rho", "log_LHe", "c_core_mass", "age">>,
                   "HeCoreBurning")
        on == {i \in Rows(d) : Ignited(d, i)}
        a1 == V(d, "age", Min(on))
        win == {i \in Rows(d) : V(d, "age", i) >= a1 /\ V(d, "c_core_mass", i) <= CORE_CO}
    IN  IF chk # None THEN chk[1]
        ELSE IF (\A i \in Rows(d) : V(d, "log_LHe", i) < LHE_ON) \/ on = {} THEN RNone
        ELSE IF return_age THEN
            IF win = {} THEN RRaise("IndexError")
            ELSE RAges(a1, V(d, "age", Max(win)))
        ELSE IF \A i \in Rows(d) : V(d, "c_core_mass", i) < CORE_CO THEN RNone
        ELSE RSel(SortedSeq(win))

HeCoreBurning(d, return_age) ==
    LET chk == check_history_parameters(
                   d, <<"log_center_T", "log_center_Rho", "log_LHe", "c_core_mass", "age">>,
                   "HeCoreBurning")
        on == {i \in Rows(d) : Ignited(d, i)}
        a1 == V(d, "age", Min(on))
        win == {i \in Rows(d) : V(d, "age", i) >= a1 /\ V(d, "c_core_mass", i) <= CORE_CO}
    IN  IF chk # None THEN chk[1]
        ELSE IF (\A i \in Rows(d) : V(d, "log_LHe", i) < LHE_ON) \/ on = {} THEN RNone
        ELSE IF \A i \in Rows(d) : V(d, "c_core_mass", i) < CORE_CO THEN RNone
        ELSE IF return_age THEN
            IF win = {} THEN RRaise("IndexError")
            ELSE RAges(a1, V(d, "age", Max(win)))
        ELSE RSel(SortedSeq(win))

HeShellBurning(d, return_age) ==
    LET chk == check_history_parameters(d, <<"log_LHe", "c_core_mass", "age">>, "HeShellBurning")
        core == {i \in Rows(d) : V(d, "c_core_mass", i) >= CORE_CO}
        a1 == V(d, "age", Min(core))
        LHe_burning == V(d, "log_LHe", Min({i \in Rows(d) : V(d, "age", i) = a1}))
        drop == {i \in Rows(d) : V(d, "age", i) > a1 /\ 2 * V(d, "log_LHe", i) < LHe_burning}
        maxCore == Max({V(d, "c_core_mass", i) : i \in Rows(d)})
        grown == {i \in Rows(d) : 100 * V(d, "c_core_mass", i) >= 98 * maxCore}
        a2 == IF drop # {} THEN V(d, "age", Min(drop))
              ELSE IF grown # {} THEN V(d, "age", Min(grown))
              ELSE V(d, "age", d.n)
    IN  IF chk # None THEN chk[1]
        ELSE IF \A i \in Rows(d) : V(d, "log_LHe", i) < LHE_ON THEN RNone
        ELSE IF core = {} THEN RNone
        ELSE IF return_age THEN RAges(a1, a2)
        ELSE RSel(WhereBetween(d, a1, a2))

sdRequired == <<"log_center_T", "log_center_Rho", "log_LHe", "c_core_mass", "log_Teff", "age">>

\* the common body of sdA, sdB and sdO: the band is lo <= log_Teff < hi,
\* open above when bounded is FALSE
sdBand(d, name, lo, hi, bounded) ==
    LET chk == check_history_parameters(d, sdRequired, name)
        ages == HeCoreBurning(d, TRUE)
        win == {i \in Rows(d) : V(d, "age", i) > ages.a1 /\ V(d, "age", i) < ages.a2}
        teff == avg_(d, win, "log_Teff")
    IN  IF chk # None THEN chk[1]
        ELSE IF ages.kind = "raise" THEN ages
        ELSE IF ages.kind = "None" THEN RNone
        ELSE IF teff.kind = "raise" THEN RRaise(teff.exc)
        ELSE IF ValueLT(teff, lo) \/ (bounded /\ ValueGE(teff, hi)) THEN RNone
        ELSE RSel(SortedSeq({i \in win : /\ V(d, "log_Teff", i) >= lo
                                         /\ bounded => V(d, "log_Teff", i) < hi}))

sdA(d) == sdBand(d, "sdA", LOG_TEFF_15000, LOG_TEFF_20000, TRUE)

sdB(d) == sdBand(d, "sdB", LOG_TEFF_20000, LOG_TEFF_40000, TRUE)

sdO(d) == sdBand(d, "sdO", LOG_TEFF_40000, LOG_TEFF_40000, FALSE)

He_WD(d) ==
    LET chk == check_history_parameters(
                   d, <<"log_LHe", "c_core_mass", "log_Teff", "log_g", "age">>, "He_WD")
        cool == {i \in Rows(d) : \/ /\ V(d, "log_Teff", i) < LOG_TEFF_WD
                                    /\ V(d, "log_g", i) > LOG_G_WD
                                 \/ V(d, "log_g", i) >= LOG_G_WD_ANY}
        a1 == V(d, "age", Min(cool))
    IN  IF chk # None THEN chk[1]
        ELSE IF Max({V(d, "log_g", i) : i \in Rows(d)}) < LOG_G_WD THEN RNone
        ELSE IF \/ Max({V(d, "c_core_mass", i) : i \in Rows(d)}) > CORE_CO
                \/ Max({V(d, "log_LHe", i) : i \in Rows(d)}) > LHE_WD THEN RNone
        ELSE IF cool = {} THEN RNone
        ELSE RSel(SortedSeq({i \in Rows(d) : V(d, "age", i) > a1}))

\* the keys of all_phases
all_phases == {"init", "final", "MS", "RGB", "MLstart", "MLend", "ML",
               "CEstart", "CEend", "CE", "HeIgnition", "HeCoreBurning",
               "HeShellBurning", "sdA", "sdB", "sdO", "He-WD"}

EVOLUTION_PHASES == all_phases

\* all_phases[phase](data)
Detect(phase, d) ==
    CASE phase = "init" -> init(d)
      [] phase = "final" -> final(d)
      [] phase = "MS" -> MS(d, FALSE)
      [] phase = "RGB" -> RGB(d, FALSE)
      [] phase = "MLstart" -> MLstart(d, FALSE)
      [] phase = "MLend" -> MLend(d, FALSE)
      [] phase = "ML" -> ML(d, FALSE)
      [] phase = "CEstart" -> CEstart(d)
      [] phase = "CEend" -> CEend(d)
      [] phase = "CE" -> CE(d)
      [] phase = "HeIgnition" -> HeIgnition(d, FALSE)
      [] phase = "HeCoreBurning" -> HeCoreBurning(d, FALSE)
      [] phase = "HeShellBurning" -> HeShellBurning(d, FALSE)
      [] phase = "sdA" -> sdA(d)
      [] phase = "sdB" -> sdB(d)
      [] phase = "sdO" -> sdO(d)
      [] phase = "He-WD" -> He_WD(d)

\* the characters of a column name
ColumnChars(c) ==
    CASE c = "age" -> <<"age">>
      [] c = "log_L" -> <<"log", "_", "L">>
      [] c = "log_LH" -> <<"log", "_", "LH">>
      [] c = "center_h1" -> <<"center", "_", "h1">>
      [] c = "center_he4" -> <<"center", "_", "he4">>
      [] c = "effective_T" -> <<"effective", "_", "T">>
      [] c = "log_LHe" -> <<"log", "_", "LHe">>
      [] c = "c_core_mass" -> <<"c", "_", "core", "_", "mass">>
      [] c = "log_center_T" -> <<"log", "_", "center", "_", "T">>
      [] c = "log_center_Rho" -> <<"log", "_", "center", "_", "Rho">>
      [] c = "log_Teff" -> <<"log", "_", "Teff">>
      [] c = "log_g" -> <<"log", "_", "g">>
      [] c = "lg_mstar_dot_1" -> <<"lg", "_", "mstar", "_", "dot", "_", "1">>
      [] c = "CE_phase" -> <<"CE", "_", "phase">>
      [] c = "log_dt" -> <<"log", "_", "dt">>

\* get_custom_phase selecting the rows at or above the value
get_custom_phase_AtLeast(phase, d) ==
    LET parts == Split(phase, "_")
        p == Join(SubSeq(parts, 1, Len(parts) - 1))
        func == parts[Len(parts)]
        cols == {c \in Names(d) : ColumnChars(c) = p}
        c == CHOOSE x \in cols : TRUE
        value == Apply(func[1], d, Rows(d), c)
    IN  IF cols = {} \/ ~IsKnown(func) THEN RNone
        ELSE IF value.kind = "raise" THEN RRaise(value.exc)
        ELSE RSel(SortedSeq({i \in Rows(d) :
                      value.kind = "num" /\ V(d, c, i) * value.d >= value.n}))

get_custom_phase(phase, d) ==
    LET parts == Split(phase, "_")
        p == Join(SubSeq(parts, 1, Len(parts) - 1))
        func == parts[Len(parts)]
        cols == {c \in Names(d) : ColumnChars(c) = p}
        c == CHOOSE x \in cols : TRUE
        value == Apply(func[1], d, Rows(d), c)
    IN  IF cols = {} \/ ~IsKnown(func) THEN RNone
        ELSE IF value.kind = "raise" THEN RRaise(value.exc)
        ELSE RSel(SortedSeq({i \in Rows(d) : EqualsValue(V(d, c, i), value)}))

\* phase in all_phases, for a phase given by its characters
IsCanonical(phase) == Len(phase) = 1 /\ phase[1] \in all_phases

\* the body of the loop of get_all_phases for one phase
Evaluate(phase, d) ==
    IF ~IsCanonical(phase) THEN get_custom_phase(phase, d)
    ELSE Detect(phase[1], d)

\* set(phases) with None removed; a requested name is Some(string)
RequestedSet(ps) == {Chars(ps[i][1]) : i \in {j \in DOMAIN ps : ps[j] # None}}

(***************************************************************************)
(* Operations                                                              *)
(***************************************************************************)
Idle ==
    /\ par = <<>>
    /\ phases = <<>>
    /\ pending = {}
    /\ phase_selection = <<>>
    /\ call = ""
    /\ result = Blank
    /\ pc = "idle"

\* one call of a canonical detector on the history
CallPhase(phase) ==
    /\ pc = "idle"
    /\ call' = phase
    /\ result' = Detect(phase, data)
    /\ pc' = "done"
    /\ UNCHANGED <<par, data, phases, pending, phase_selection>>

\* one call of get_custom_phase; par holds the phase name
CallCustom ==
    /\ pc = "idle"
    /\ call' = "get_custom_phase"
    /\ result' = get_custom_phase(par, data)
    /\ pc' = "done"
    /\ UNCHANGED <<par, data, phases, pending, phase_selection>>

\* get_all_phases: lines 675-679
GetAllPhasesEnter ==
    /\ pc = "idle"
    /\ call' = "get_all_phases"
    /\ pending' = RequestedSet(phases)
    /\ phase_selection' = <<>>
    /\ pc' = "loop"
    /\ UNCHANGED <<par, data, phases, result>>

\* the loop of get_all_phases with an exception of the detector caught and
\* stored as None
GetAllPhasesStep_Swallow ==
    /\ pc = "loop"
    /\ \E phase \in pending :
          LET r == Evaluate(phase, data) IN
          /\ phase_selection' =
                 [x \in DOMAIN phase_selection \cup {phase} |->
                     IF x # phase THEN phase_selection[x]
                     ELSE IF r.kind = "raise" THEN RNone ELSE r]
          /\ pending' = pending \ {phase}
          /\ UNCHANGED <<result, pc>>
    /\ UNCHANGED <<par, data, phases, call>>

\* get_all_phases: one turn of the loop, on any phase the set still yields;
\* an exception of the detector leaves get_all_phases
GetAllPhasesStep ==
    /\ pc = "loop"
    /\ \E phase \in pending :
          LET r == Evaluate(phase, data) IN
          IF r.kind = "raise"
          THEN /\ result' = r
               /\ pc' = "done"
               /\ UNCHANGED <<pending, phase_selection>>
          ELSE /\ phase_selection' =
                      [x \in DOMAIN phase_selection \cup {phase} |->
                          IF x = phase THEN r ELSE phase_selection[x]]
               /\ pending' = pending \ {phase}
               /\ UNCHANGED <<result, pc>>
    /\ UNCHANGED <<par, data, phases, call>>

\* get_all_phases: return phase_selection
GetAllPhasesReturn ==
    /\ pc = "loop"
    /\ pending = {}
    /\ result' = [Blank EXCEPT !.kind = "map"]
    /\ pc' = "done"
    /\ UNCHANGED <<par, data, phases, pending, phase_selection, call>>

(***************************************************************************)
(* Histories                                                               *)
(***************************************************************************)
MaxStep == 1

\* the age columns of n rows: non-decreasing, from 0, in steps of 0..MaxStep
AgeSeqs(n) ==
    {a \in [1..n -> 0..((n - 1) * MaxStep)] :
        /\ a[1] = 0
        /\ \A i \in 1..(n - 1) : a[i + 1] - a[i] \in 0..MaxStep}

Increasing(a) == \A i \in 1..(Len(a) - 1) : a[i] < a[i + 1]

History(k, c) == [n |-> k, col |-> c]

\* the history without the columns in M
Without(d, M) == [n |-> d.n, col |-> [c \in Names(d) \ M |-> d.col[c]]]

(***************************************************************************)
(* Inputs of the decomposer                                                *)
(***************************************************************************)
MaxParLen == 5

ParAtoms == known_functions \cup {"RL", "Teff", "ML", "_", "__"}

NoData == [n |-> 0, col |-> <<>>]

InitDecompose ==
    /\ par \in SeqsUpTo(ParAtoms, MaxParLen)
    /\ data = NoData
    /\ phases = <<>>
    /\ pending = {}
    /\ phase_selection = <<>>
    /\ call = ""
    /\ result = Blank
    /\ pc = "idle"

CallDecompose ==
    /\ pc = "idle"
    /\ call' = "decompose_parameter"
    /\ result' = decompose_parameter(par)
    /\ pc' = "done"
    /\ UNCHANGED <<par, data, phases, pending, phase_selection>>

NextDecompose == CallDecompose

SpecDecompose == InitDecompose /\ [][NextDecompose]_vars

(***************************************************************************)
(* Claims about decompose_parameter (checked under SpecDecompose)          *)
(***************************************************************************)
Decomposed == pc = "done" /\ call = "decompose_parameter"

\* words that are no aggregate function name
PlainWords == {"RL", "Teff", "ML"}

C2_FunctionFirst ==
    Decomposed =>
        \A f \in known_functions : \A c, ph \in PlainWords :
            /\ par = <<f, "__", c>> => result = RDec(Some(<<c>>), None, Some(f))
            /\ par = <<f, "__", c, "__", ph>> =>
                   result = RDec(Some(<<c>>), Some(<<ph>>), Some(f))

(***************************************************************************)
(* Mass loss: ML, MLstart, MLend                                           *)
(***************************************************************************)
MaxRowsML == 4

RateValues == {ML_RATE - 1, ML_RATE, ML_RATE + 1}

\* the histories of n rows
MLHistories(n) ==
    {History(n, [age |-> a, lg_mstar_dot_1 |-> r]) :
        a \in AgeSeqs(n), r \in [1..n -> RateValues]}

InitML == (\E n \in 1..MaxRowsML : data \in MLHistories(n)) /\ Idle

NextML == CallPhase("ML") \/ CallPhase("MLstart") \/ CallPhase("MLend")

SpecML == InitML /\ [][NextML]_vars

\* the rows of the claim: s the first row with rate >= -10, e the first row
\* after s with rate < -10, or the last row
MLOn == {i \in Rows(data) : V(data, "lg_mstar_dot_1", i) >= ML_RATE}
MLFirst == Min(MLOn)
MLDip == {i \in Rows(data) : i > MLFirst /\ V(data, "lg_mstar_dot_1", i) < ML_RATE}
MLLast == IF MLDip = {} THEN data.n ELSE Min(MLDip)

MLAsClaimed ==
    /\ MLOn = {} => result = RNone
    /\ MLOn # {} =>
          /\ call = "ML" => result = RSel(SortedSeq(MLFirst..MLLast))
          /\ call = "MLstart" => result = RSel(<<MLFirst>>)
          /\ call = "MLend" => result = RSel(<<MLLast>>)

\* C7 as stated: for every history with non-decreasing age, ML, MLstart and
\* MLend are Absent iff every row has rate < -10; otherwise ML is the rows
\* s..e, MLstart the row s and MLend the row e.
C7_AsStated == pc = "done" => MLAsClaimed

\* C7 amended: the same, for every history with strictly increasing age.
C7_MassLoss == pc = "done" /\ Increasing(data.col["age"]) => MLAsClaimed

\* MLend was called on a history with increasing age whose mass loss starts
\* after the first row and dips before the last one
C7_Witness ==
    /\ pc = "done"
    /\ call = "MLend"
    /\ Increasing(data.col["age"])
    /\ MLOn # {} /\ MLFirst > 1 /\ MLDip # {} /\ MLLast < data.n
    /\ result = RSel(<<MLLast>>)

(***************************************************************************)
(* Common envelope: CE, CEstart, CEend                                     *)
(***************************************************************************)
MaxRowsCE == 4

\* the histories of n rows
CEHistories(n) == {History(n, [CE_phase |-> f]) : f \in [1..n -> 0..2]}

InitCE == (\E n \in 1..MaxRowsCE : data \in CEHistories(n)) /\ Idle

NextCE == CallPhase("CE") \/ CallPhase("CEstart") \/ CallPhase("CEend")

SpecCE == InitCE /\ [][NextCE]_vars

CEOn == {i \in Rows(data) : V(data, "CE_phase", i) = 1}

\* C8: on a history whose CE_phase column holds only 0 or 1, CE, CEstart and
\* CEend are Absent when the flag is never 1; otherwise CE is the rows where
\* the flag is 1, CEstart the first of them and CEend the last.
C8_CommonEnvelope ==
    pc = "done" /\ (\A i \in Rows(data) : V(data, "CE_phase", i) \in {0, 1}) =>
        /\ CEOn = {} => result = RNone
        /\ CEOn # {} =>
              /\ call = "CE" => result = RSel(SortedSeq(CEOn))
              /\ call = "CEstart" => result = RSel(<<Min(CEOn)>>)
              /\ call = "CEend" => result = RSel(<<Max(CEOn)>>)

\* CEend was called on a history with two separate common-envelope rows
C8_Witness ==
    /\ pc = "done"
    /\ call = "CEend"
    /\ \A i \in Rows(data) : V(data, "CE_phase", i) \in {0, 1}
    /\ Cardinality(CEOn) >= 2
    /\ \E i \in Rows(data) : i > Min(CEOn) /\ i < Max(CEOn) /\ i \notin CEOn
    /\ result = RSel(<<Max(CEOn)>>)

(***************************************************************************)
(* Histories lacking columns                                               *)
(***************************************************************************)
MaxMissing == 2

\* a two-row history holding every column
FullHistory ==
    History(2, [c \in Columns |->
        CASE c = "age" -> <<0, 1>>
          [] c = "center_h1" -> <<-1, -13>>
          [] c = "center_he4" -> <<97, 98>>
          [] c = "c_core_mass" -> <<0, CORE_CO>>
          [] c = "log_Teff" -> <<4400, 4400>>
          [] c = "log_g" -> <<40, 40>>
          [] c = "lg_mstar_dot_1" -> <<ML_RATE - 1, ML_RATE>>
          [] c = "log_center_T" -> <<0, 3>>
          [] c = "log_center_Rho" -> <<0, 0>>
          [] c = "CE_phase" -> <<0, 1>>
          [] OTHER -> <<1, 2>>])

InitMissing ==
    /\ \E M \in SUBSET Columns :
          /\ Cardinality(M) <= MaxMissing
          /\ data = Without(FullHistory, M)
    /\ Idle

NextMissing ==
    \/ CallPhase("init") \/ CallPhase("final")
    \/ CallPhase("MS") \/ CallPhase("RGB")
    \/ CallPhase("MLstart") \/ CallPhase("MLend") \/ CallPhase("ML")
    \/ CallPhase("CEstart") \/ CallPhase("CEend") \/ CallPhase("CE")
    \/ CallPhase("HeIgnition") \/ CallPhase("HeCoreBurning")
    \/ CallPhase("HeShellBurning")
    \/ CallPhase("sdA") \/ CallPhase("sdB") \/ CallPhase("sdO")
    \/ CallPhase("He-WD")

SpecMissing == InitMissing /\ [][NextMissing]_vars

\* the columns a detector needs: its required_parameters, and for the
\* common-envelope detectors the column they read
NeededColumns(phase) ==
    CASE phase \in {"init", "final"} -> <<>>
      [] phase = "MS" -> <<"log_L", "log_LH", "center_h1", "age">>
      [] phase = "RGB" -> <<"log_L", "center_h1", "center_he4", "effective_T", "age">>
      [] phase \in {"ML", "MLstart", "MLend"} -> <<"lg_mstar_dot_1", "age">>
      [] phase \in {"CE", "CEstart", "CEend"} -> <<"CE_phase">>
      [] phase \in {"HeIgnition", "HeShellBurning"} -> <<"log_LHe", "c_core_mass", "age">>
      [] phase = "HeCoreBurning" ->
             <<"log_center_T", "log_center_Rho", "log_LHe", "c_core_mass", "age">>
      [] phase \in {"sdA", "sdB", "sdO"} -> sdRequired
      [] phase = "He-WD" -> <<"log_LHe", "c_core_mass", "log_Teff", "log_g", "age">>

\* the name under which a detector reports itself
PhaseLabel(phase) == IF phase = "He-WD" THEN "He_WD" ELSE phase

\* C3: every canonical detector that reads a column, called on a history
\* lacking a column it needs, fails with the missing-parameters error naming
\* the phase and listing the missing columns; it returns nothing and raises
\* no other error.
C3_MissingColumns ==
    pc = "done" /\ call \in all_phases =>
        LET missing == SelectSeq(NeededColumns(call), LAMBDA c : c \notin Names(data))
        IN  missing # <<>> => result = RMissing(PhaseLabel(call), missing)

(***************************************************************************)
(* Main sequence and red giant branch                                      *)
(***************************************************************************)
MaxRowsRange == 2

\* the values of a row: log_L, log_LH, center_h1, center_he4, effective_T
RangeRows ==
    [log_L : {2, 3}, log_LH : {1, 2}, center_h1 : {-13, -1, 12},
     center_he4 : {97, 99}, effective_T : {1, 2}]

\* the histories of n rows
RangeHistories(n) ==
    {History(n, [age |-> a,
                 log_L |-> [i \in 1..n |-> r[i].log_L],
                 log_LH |-> [i \in 1..n |-> r[i].log_LH],
                 center_h1 |-> [i \in 1..n |-> r[i].center_h1],
                 center_he4 |-> [i \in 1..n |-> r[i].center_he4],
                 effective_T |-> [i \in 1..n |-> r[i].effective_T]]) :
        a \in AgeSeqs(n), r \in [1..n -> RangeRows]}

InitRange == (\E n \in 1..MaxRowsRange : data \in RangeHistories(n)) /\ Idle

NextRange == CallPhase("MS") \/ CallPhase("RGB")

SpecRange == InitRange /\ [][NextRange]_vars

\* C4: on a history holding the columns RGB requires, in which center_h1
\* never drops below 1e-12, RGB returns Absent and raises nothing.
C4_RGBAbsent ==
    /\ pc = "done"
    /\ call = "RGB"
    /\ \A i \in Rows(data) : V(data, "center_h1", i) >= H1_EXHAUSTED
    => result = RNone

\* the (start age, end age) a range phase computes
RangeAges(phase, d) ==
    CASE phase = "MS" -> MS(d, TRUE)
      [] phase = "RGB" -> RGB(d, TRUE)
      [] phase = "HeShellBurning" -> HeShellBurning(d, TRUE)
      [] phase = "ML" -> ML(d, TRUE)

\* C6: on a history with non-decreasing age, a range phase (MS, RGB,
\* HeShellBurning, ML) that returns a selection has start age <= end age,
\* and the selection is a non-empty run of consecutive rows.
C6_BoundaryOrder ==
    /\ pc = "done"
    /\ call \in {"MS", "RGB", "HeShellBurning", "ML"}
    /\ result.kind = "sel"
    => /\ RangeAges(call, data).a1 <= RangeAges(call, data).a2
       /\ result.sel # <<>>
       /\ \A k \in 1..(Len(result.sel) - 1) : result.sel[k + 1] = result.sel[k] + 1

(***************************************************************************)
(* Core helium burning and the subdwarf phases                             *)
(***************************************************************************)
MaxRowsHe == 2

\* the values of a row: log_center_T (at log_center_Rho 0), log_LHe,
\* c_core_mass
HeRows == [log_center_T : {0, 3}, log_LHe : {0, 2}, c_core_mass : {0, CORE_CO, CORE_CO + 1}]

\* the histories of n rows
HeHistories(n) ==
    {History(n, [age |-> a,
                 log_center_T |-> [i \in 1..n |-> r[i].log_center_T],
                 log_center_Rho |-> [i \in 1..n |-> 0],
                 log_LHe |-> [i \in 1..n |-> r[i].log_LHe],
                 c_core_mass |-> [i \in 1..n |-> r[i].c_core_mass],
                 log_Teff |-> [i \in 1..n |-> 4400],
                 log_dt |-> [i \in 1..n |-> 0]]) :
        a \in AgeSeqs(n), r \in [1..n -> HeRows]}

InitHe ==
    /\ \E n \in 1..MaxRowsHe : \E h \in HeHistories(n) :
          \E M \in {{}, {"log_Teff"}, {"log_dt"}} : data = Without(h, M)
    /\ Idle

NextHe ==
    \/ CallPhase("HeCoreBurning")
    \/ CallPhase("sdA") \/ CallPhase("sdB") \/ CallPhase("sdO")

SpecHe == InitHe /\ [][NextHe]_vars

\* C5 as stated: for every history, if HeCoreBurning returns Absent then
\* sdA, sdB and sdO return Absent on it.
C5_AsStated ==
    /\ pc = "done"
    /\ call \in {"sdA", "sdB", "sdO"}
    /\ HeCoreBurning(data, FALSE) = RNone
    => result = RNone

\* C5 amended: for every history that holds the log_Teff column, if
\* HeCoreBurning returns Absent then sdA, sdB and sdO return Absent on it.
C5_Dependency ==
    /\ pc = "done"
    /\ call \in {"sdA", "sdB", "sdO"}
    /\ "log_Teff" \in Names(data)
    /\ HeCoreBurning(data, FALSE) = RNone
    => result = RNone

\* sdB was called on a history that ignites helium and never builds a
\* carbon-oxygen core, so that HeCoreBurning is Absent
C5_Witness ==
    /\ pc = "done"
    /\ call = "sdB"
    /\ "log_Teff" \in Names(data)
    /\ \E i \in Rows(data) : Ignited(data, i) /\ V(data, "log_LHe", i) >= LHE_ON
    /\ HeCoreBurning(data, FALSE) = RNone
    /\ result = RNone

(***************************************************************************)
(* Custom phases                                                           *)
(***************************************************************************)
MaxRowsCustom == 3

\* the custom phase names tried
CustomNames ==
    {<<"log", "_", "g", "_", f>> : f \in known_functions \cup {"foo", "g"}}
    \cup {<<"age", "_", "min">>, <<"age", "_", "rate">>, <<"foo", "_", "max">>,
          <<"log", "_", "Teff", "_", "max">>, <<"log", "__", "g", "_", "max">>,
          <<"log", "_", "g", "__", "max">>, <<"log", "_", "g", "_">>,
          <<"log", "_", "g">>, <<"max">>, <<"_", "max">>, <<>>}

\* the histories of n rows
CustomHistories(n) ==
    {History(n, [age |-> a, log_g |-> g, log_dt |-> w]) :
        a \in AgeSeqs(n), g \in [1..n -> {1, 2}], w \in [1..n -> {0, 1}]}

InitCustom ==
    /\ \E n \in 1..MaxRowsCustom : \E h \in CustomHistories(n) :
          \E M \in {{}, {"log_dt"}, {"age"}, {"log_g"}} : data = Without(h, M)
    /\ par \in CustomNames
    /\ phases = <<>>
    /\ pending = {}
    /\ phase_selection = <<>>
    /\ call = ""
    /\ result = Blank
    /\ pc = "idle"

NextCustom == CallCustom

SpecCustom == InitCustom /\ [][NextCustom]_vars

\* the (column, function) pairs c, f for which the name is the characters of
\* c, one underscore, and f: f is the text after the last underscore
CustomReading ==
    {cf \in Names(data) \X known_functions :
        Chars(par) = ColumnChars(cf[1]) \o <<"_", cf[2]>>}

\* the rows where the column equals the aggregate of the column over the
\* whole history
RowsAtAggregate(c, f) ==
    {i \in Rows(data) : EqualsValue(V(data, c, i), Apply(f, data, Rows(data), c))}

\* C10 as stated: get_custom_phase returns Absent when the column before the
\* last underscore is not in the history or the function after it is not
\* known; otherwise it returns exactly the rows where the column equals the
\* aggregate over the whole history, a non-empty selection for min and max.
C10_AsStated ==
    pc = "done" /\ call = "get_custom_phase" =>
        /\ CustomReading = {} => result = RNone
        /\ \A cf \in CustomReading :
              /\ result = RSel(SortedSeq(RowsAtAggregate(cf[1], cf[2])))
              /\ cf[2] \in {"min", "max"} => result.sel # <<>>

\* the aggregate reads a column the history lacks: log_dt for avg, age for
\* rate
AggregateLacksColumn(f) ==
    \/ f = "avg" /\ "log_dt" \notin Names(data)
    \/ f = "rate" /\ "age" \notin Names(data)

\* C10 amended: as stated, except that for avg on a history without log_dt
\* and for rate on a history without age the call raises the field lookup
\* error instead of returning.
C10_CustomPhase ==
    pc = "done" /\ call = "get_custom_phase" =>
        /\ CustomReading = {} => result = RNone
        /\ \A cf \in CustomReading :
              IF AggregateLacksColumn(cf[2]) THEN result = RRaise("FieldError")
              ELSE /\ result = RSel(SortedSeq(RowsAtAggregate(cf[1], cf[2])))
                   /\ cf[2] \in {"min", "max"} => result.sel # <<>>

\* log_g_rate was resolved on a history whose rate of change of log_g is
\* the value of some but not all rows
C10_Witness ==
    /\ pc = "done"
    /\ call = "get_custom_phase"
    /\ par = <<"log", "_", "g", "_", "rate">>
    /\ result.kind = "sel"
    /\ result.sel # <<>>
    /\ Len(result.sel) < data.n

(***************************************************************************)
(* The batch evaluator get_all_phases                                      *)
(***************************************************************************)
MaxRequest == 3

\* what a request may hold: None, canonical names and custom names
RequestItems ==
    {None, Some(<<"init">>), Some(<<"CE">>), Some(<<"ML">>),
     Some(<<"log", "_", "g", "_", "max">>), Some(<<"log", "_", "g", "_", "avg">>),
     Some(<<"foo">>)}

BatchHistories ==
    {Without(History(2, [age |-> <<0, 1>>, log_g |-> <<1, 2>>, log_dt |-> <<0, 1>>,
                         lg_mstar_dot_1 |-> <<ML_RATE - 1, ML_RATE + 1>>,
                         CE_phase |-> f]), M) :
        f \in [1..2 -> {0, 1}], M \in {{}, {"CE_phase"}, {"log_dt"}}}

InitBatch ==
    /\ data \in BatchHistories
    /\ phases \in SeqsUpTo(RequestItems, MaxRequest)
    /\ par = <<>>
    /\ pending = {}
    /\ phase_selection = <<>>
    /\ call = ""
    /\ result = Blank
    /\ pc = "idle"

NextBatch == GetAllPhasesEnter \/ GetAllPhasesStep \/ GetAllPhasesReturn

SpecBatch == InitBatch /\ [][NextBatch]_vars

\* the distinct requested names, None dropped
Requested == {phases[i][1] : i \in {j \in DOMAIN phases : phases[j] # None}}

\* what the claim gives as the value of a name: the canonical detector's
\* result, or the result of get_custom_phase for any other name
ValueOf(name) ==
    IF \E c \in all_phases : name = <<c>> THEN Detect(name[1], data)
    ELSE get_custom_phase(name, data)

\* C9: get_all_phases returns a mapping whose keys are the distinct requested
\* names without None, each with the result of its canonical detector or of
\* get_custom_phase; an exception of a detector leaves get_all_phases and is
\* never turned into an entry.
C9_GetAllPhases ==
    pc = "done" /\ call = "get_all_phases" =>
        IF \E name \in Requested : ValueOf(name).kind = "raise"
        THEN \E name \in Requested : result = ValueOf(name) /\ result.kind = "raise"
        ELSE /\ result.kind = "map"
             /\ DOMAIN phase_selection = Requested
             /\ \A name \in Requested : phase_selection[name] = ValueOf(name)

\* a request holding a name twice and a None was evaluated to a mapping with
\* the one entry of that name
C9_Witness ==
    /\ pc = "done"
    /\ call = "get_all_phases"
    /\ result.kind = "map"
    /\ \E i, j \in DOMAIN phases : i # j /\ phases[i] = phases[j] /\ phases[i] # None
    /\ \E i \in DOMAIN phases : phases[i] = None
    /\ DOMAIN phase_selection = {<<"CE">>}
    /\ phase_selection[<<"CE">>].kind = "sel"

(***************************************************************************)
(* The window of core helium burning and the moment of helium ignition     *)
(***************************************************************************)
MaxRowsCore == 3

\* the values of a row: log_center_T (at log_center_Rho 0), log_LHe,
\* c_core_mass
CoreRows ==
    [log_center_T : {0, 3}, log_LHe : {0, 2, 3}, c_core_mass : {0, CORE_CO, CORE_CO + 1}]

\* the histories of n rows
CoreHistories(n) ==
    {History(n, [age |-> a,
                 log_center_T |-> [i \in 1..n |-> r[i].log_center_T],
                 log_center_Rho |-> [i \in 1..n |-> 0],
                 log_LHe |-> [i \in 1..n |-> r[i].log_LHe],
                 c_core_mass |-> [i \in 1..n |-> r[i].c_core_mass]]) :
        a \in AgeSeqs(n), r \in [1..n -> CoreRows]}

InitCore == (\E n \in 1..MaxRowsCore : data \in CoreHistories(n)) /\ Idle

NextCore == CallPhase("HeCoreBurning") \/ CallPhase("HeIgnition")

SpecCore == InitCore /\ [][NextCore]_vars

\* the rows where the central temperature is at or above the ignition curve
IgnitedRows == {i \in Rows(data) : Ignited(data, i)}
\* the rows where the carbon-oxygen core mass exceeds 0.01
CoreAbove == {i \in Rows(data) : V(data, "c_core_mass", i) > CORE_CO}

\* C11: on a history in which helium burns, whose central temperature first
\* reaches the ignition curve at row k and whose core mass first exceeds
\* 0.01 at a later row m, HeCoreBurning returns a selection that starts at
\* row k, ends at row m-1 and holds no row at or after m.
C11_HeCoreWindow ==
    /\ pc = "done"
    /\ call = "HeCoreBurning"
    /\ \E i \in Rows(data) : V(data, "log_LHe", i) >= LHE_ON
    /\ IgnitedRows # {} /\ CoreAbove # {}
    /\ Min(IgnitedRows) < Min(CoreAbove)
    => /\ result.kind = "sel"
       /\ result.sel # <<>>
       /\ result.sel[1] = Min(IgnitedRows)
       /\ result.sel[Len(result.sel)] = Min(CoreAbove) - 1
       /\ \A j \in DOMAIN result.sel : result.sel[j] < Min(CoreAbove)

\* the rows where the He luminosity exceeds the ignition threshold
LHeOn == {i \in Rows(data) : V(data, "log_LHe", i) > LHE_ON}
\* the rows where the carbon-oxygen core mass is at least 0.01
CoreFormed == {i \in Rows(data) : V(data, "c_core_mass", i) >= CORE_CO}
\* the rows from the first row above the luminosity threshold to the first
\* row with a formed core (to the last row if the core never forms)
IgnitionWindow ==
    Min(LHeOn)..(IF CoreFormed = {} THEN data.n ELSE Min(CoreFormed))

\* C12: a selection returned by HeIgnition is a single row, the row of
\* maximal He luminosity among the rows from the first row above the
\* ignition threshold to the first row with core mass >= 0.01 (inclusive);
\* no row after the first row with core mass >= 0.01 is returned.
C12_HeIgnitionPoint ==
    pc = "done" /\ call = "HeIgnition" /\ result.kind = "sel"
    => /\ Len(result.sel) = 1
       /\ result.sel[1] \in IgnitionWindow
       /\ \A i \in IgnitionWindow :
              V(data, "log_LHe", i) <= V(data, "log_LHe", result.sel[1])
       /\ \A j \in DOMAIN result.sel :
              CoreFormed # {} => result.sel[j] <= Min(CoreFormed)

(***************************************************************************)
(* The helium white dwarf cooling track                                    *)
(***************************************************************************)
MaxRowsWD == 2

\* the values of a row: log_g in tenths, log_Teff in thousandths
WDRows ==
    [log_g : {60, LOG_G_WD, 72, LOG_G_WD_ANY}, log_Teff : {3900, 4100},
     c_core_mass : {0, CORE_CO + 1}, log_LHe : {0, 2}]

\* the histories of n rows
WDHistories(n) ==
    {History(n, [age |-> a,
                 log_g |-> [i \in 1..n |-> r[i].log_g],
                 log_Teff |-> [i \in 1..n |-> r[i].log_Teff],
                 c_core_mass |-> [i \in 1..n |-> r[i].c_core_mass],
                 log_LHe |-> [i \in 1..n |-> r[i].log_LHe]]) :
        a \in AgeSeqs(n), r \in [1..n -> WDRows]}

InitWD == (\E n \in 1..MaxRowsWD : data \in WDHistories(n)) /\ Idle

NextWD == CallPhase("He-WD")

SpecWD == InitWD /\ [][NextWD]_vars

\* the rows on the cooling track: (log_Teff < 4 and log_g > 7) or log_g >= 7.5
CoolRows ==
    {i \in Rows(data) : \/ /\ V(data, "log_Teff", i) < LOG_TEFF_WD
                             /\ V(data, "log_g", i) > LOG_G_WD
                          \/ V(data, "log_g", i) >= LOG_G_WD_ANY}

\* C13: on a history with max log_g >= 7.0, max core mass <= 0.01 and max
\* log_LHe <= 1, He_WD is Absent iff no row is on the cooling track;
\* otherwise the selection is every row from the first row on the cooling
\* track, that row included, to the last row.
C13_HeWD ==
    /\ pc = "done" /\ call = "He-WD"
    /\ Max({V(data, "log_g", i) : i \in Rows(data)}) >= LOG_G_WD
    /\ Max({V(data, "c_core_mass", i) : i \in Rows(data)}) <= CORE_CO
    /\ Max({V(data, "log_LHe", i) : i \in Rows(data)}) <= LHE_WD
    => /\ result.kind = "None" <=> CoolRows = {}
       /\ CoolRows # {} => result = RSel(SortedSeq(Min(CoolRows)..data.n))

(***************************************************************************)
(* The subdwarf classes inside the window of core helium burning           *)
(***************************************************************************)
MaxRowsSd == 3

\* the values of a row: log_center_T (at log_center_Rho 0), c_core_mass,
\* log_Teff in thousandths; He burns in every row and log_dt is 0
SdRows ==
    [log_center_T : {0, 3}, c_core_mass : {0, CORE_CO, CORE_CO + 1},
     log_Teff : {4200, 4400, 4700}]

\* the histories of n rows
SdHistories(n) ==
    {History(n, [age |-> a,
                 log_center_T |-> [i \in 1..n |-> r[i].log_center_T],
                 log_center_Rho |-> [i \in 1..n |-> 0],
                 log_LHe |-> [i \in 1..n |-> 2],
                 c_core_mass |-> [i \in 1..n |-> r[i].c_core_mass],
                 log_Teff |-> [i \in 1..n |-> r[i].log_Teff],
                 log_dt |-> [i \in 1..n |-> 0]]) :
        a \in AgeSeqs(n), r \in [1..n -> SdRows]}

InitSd == (\E n \in 1..MaxRowsSd : data \in SdHistories(n)) /\ Idle

NextSd ==
    \/ CallPhase("HeCoreBurning")
    \/ CallPhase("sdA")
    \/ CallPhase("sdB")
    \/ CallPhase("sdO")

SpecSd == InitSd /\ [][NextSd]_vars

\* the rows of a result that is a selection
SelRows(r) == {r.sel[j] : j \in DOMAIN r.sel}

\* the effective temperature of row i lies in the band of the class
InBand(class, i) ==
    LET t == V(data, "log_Teff", i)
    IN  CASE class = "sdA" -> t >= LOG_TEFF_15000 /\ t < LOG_TEFF_20000
          [] class = "sdB" -> t >= LOG_TEFF_20000 /\ t < LOG_TEFF_40000
          [] class = "sdO" -> t >= LOG_TEFF_40000

\* C14: on a history on which HeCoreBurning returns a selection, sdA, sdB
\* and sdO each return None or a selection and never raise; every row of a
\* returned selection is a row of the HeCoreBurning selection and has its
\* effective temperature in the band of the class; the three selections are
\* pairwise disjoint.
C14_SubdwarfBands ==
    /\ pc = "done" /\ call \in {"sdA", "sdB", "sdO"}
    /\ HeCoreBurning(data, FALSE).kind = "sel"
    => /\ result.kind \in {"None", "sel"}
       /\ result.kind = "sel" =>
              \A i \in SelRows(result) :
                  /\ i \in SelRows(HeCoreBurning(data, FALSE))
                  /\ InBand(call, i)
       /\ \A x, y \in {sdA(data), sdB(data), sdO(data)} :
              x.kind = "sel" /\ y.kind = "sel" /\ x # y
              => SelRows(x) \cap SelRows(y) = {}

(***************************************************************************)
(* The aggregate functions on degenerate input                             *)
(***************************************************************************)
MaxRowsAgg == 3

\* the histories of n rows handed to an aggregate function; a slice
\* data[mask] with an all-false mask has no row
AggHistories(n) ==
    IF n = 0
    THEN {History(0, [age |-> <<>>, log_g |-> <<>>, log_dt |-> <<>>])}
    ELSE {History(n, [age |-> a, log_g |-> g, log_dt |-> w]) :
              a \in AgeSeqs(n), g \in [1..n -> {1, 2}], w \in [1..n -> {0, 1}]}

InitAgg == (\E n \in 0..MaxRowsAgg : data \in AggHistories(n)) /\ Idle

\* one call known_functions[func](data, 'log_g'); result holds the value
\* returned or the exception raised
CallAggregate(func) ==
    /\ pc = "idle"
    /\ call' = func
    /\ result' = Apply(func, data, Rows(data), "log_g")
    /\ pc' = "done"
    /\ UNCHANGED <<par, data, phases, pending, phase_selection>>

NextAgg ==
    \/ CallAggregate("min")
    \/ CallAggregate("max")
    \/ CallAggregate("avg")
    \/ CallAggregate("diff")
    \/ CallAggregate("rate")

SpecAgg == InitAgg /\ [][NextAgg]_vars

\* the first and the last age of a history with rows are equal
ZeroAgeSpan == data.n > 0 /\ V(data, "age", 1) = V(data, "age", data.n)

\* C15 as stated: min, max, avg, diff and rate never raise on degenerate
\* input; given no rows, or (for rate) rows whose first and last age are
\* equal, each returns a non-finite value.
C15_AsStated ==
    /\ pc = "done"
    /\ data.n = 0 \/ (call = "rate" /\ ZeroAgeSpan)
    => result.kind = "nonfinite"

\* C15: rate on rows whose first and last age are equal returns a
\* non-finite value and does not raise; given no rows, every aggregate
\* raises: min and max ValueError, avg ZeroDivisionError, diff and rate
\* IndexError.
C15_Degenerate ==
    pc = "done"
    => /\ call = "rate" /\ ZeroAgeSpan => result.kind = "nonfinite"
       /\ data.n = 0 =>
              /\ result.kind = "raise"
              /\ call \in {"min", "max"} => result.exc = "ValueError"
              /\ call = "avg" => result.exc = "ZeroDivisionError"
              /\ call \in {"diff", "rate"} => result.exc = "IndexError"

\* rate was applied to two rows of equal age and different value
C15_Witness ==
    /\ pc = "done" /\ call = "rate"
    /\ data.n = 2 /\ ZeroAgeSpan
    /\ V(data, "log_g", 1) # V(data, "log_g", 2)
    /\ result.kind = "nonfinite"

====
